---------------------------- MODULE Spec2Model ----------------------------
(***************************************************************************)
(* Model of the benchmarking harness of GraphDatabases:                    *)
(*   src/benchmark.py  Suppress, Profiler, the workloads, perform_bench,   *)
(*                     iterate_bench, save_data                            *)
(*   src/databases.py  GraphDriver and its three backends                  *)
(* Floats are modelled exactly as rationals [num, den]; a raised exception *)
(* is the string of its class name.                                        *)
(***************************************************************************)
EXTENDS Integers, Sequences, FiniteSets, TLC

\* ------------------------------------------------------------------ bounds
\* Most samples a series may hold before the sampling loop stops taking ticks.
MaxSamples == 2
\* Most Profiler.start() calls on one instance.
MaxStarts == 2
\* Most queries the backend is handed before the caller stops calling.
MaxQueries == 3
\* The largest value time.time() returns, counted from the call of perform_bench.
MaxClock == 1
\* The longest column handed to save_data by a caller of its own.
MaxRows == 2
\* Most save_data calls of such a caller.
MaxSaves == 1

\* The OS process ids of the machine: process 1 runs under a steady load,
\* the load of the others varies.
PIDS == {1, 2, 3}
\* mem / 1024 / 1024 of Profiler._run: bytes per MB.
BytesPerMB == 1024 * 1024
\* What cpu_percent may return for live process pid.
CpuVals(pid) == IF pid = 1 THEN {1} ELSE {1, 2}
\* What memory_info().rss may return for live process pid (bytes).
RssVals(pid) == IF pid = 1 THEN {BytesPerMB} ELSE {BytesPerMB \div 2, BytesPerMB}

VARIABLES
    alive,          \* the OS processes that still exist
    pids,           \* Profiler._pids
    running,        \* Profiler._running
    thread,         \* Profiler._thread: id of the Thread object, 0 for None
    threads,        \* every Thread(target=self._run) created so far, with its locals
    cpu_usage,      \* Profiler._cpu_usage
    memory_usage,   \* Profiler._memory_usage
    pc,             \* where the calling (foreground) thread is
    call,           \* the last Profiler call of the foreground thread and its outcome
    stop_returned,  \* history: a stop() call has returned normally
    at_stop,        \* history: the lengths of the two series when stop() last
                    \* cleared the flag of the instance
    backend,        \* the GraphDriver subclass of the store
    suppressed,     \* GraphDriver._suppressed
    executed,       \* queries handed to the backend (session.run, AQLQuery, command)
    sessions,       \* NEO4j: driver.session() calls
    store_call,     \* the last capability call on the store and its outcome
    clock,          \* the last value time.time() returned
    pb,             \* perform_bench: its arguments and locals
    wl,             \* the workload being run: its operations and how many are done
    it,             \* iterate_bench: its arguments and locals
    saves,          \* every save_data call so far and what it left on disk
    shown,          \* what the last show_single_bench call read, and of which save
    log             \* the error() messages of the construction of the Profiler

pvars == <<alive, pids, running, thread, threads, cpu_usage, memory_usage>>
cvars == <<pc, call, stop_returned, at_stop>>
svars == <<backend, suppressed, executed, sessions, store_call>>
bvars == <<clock, pb, wl, it, saves, shown, log>>
vars == <<alive, pids, running, thread, threads, cpu_usage, memory_usage,
          pc, call, stop_returned, at_stop,
          backend, suppressed, executed, sessions, store_call,
          clock, pb, wl, it, saves, shown, log>>

\* ----------------------------------------------------------------- helpers
RECURSIVE SumSeq(_)
SumSeq(s) == IF s = <<>> THEN 0 ELSE Head(s) + SumSeq(Tail(s))

Min(S) == CHOOSE x \in S : \A y \in S : x <= y

\* The elements of a set of integers in increasing order (psutil.process_iter
\* yields processes sorted by pid).
RECURSIVE SortedSeq(_)
SortedSeq(S) == IF S = {} THEN <<>> ELSE <<Min(S)>> \o SortedSeq(S \ {Min(S)})

\* list.index(x): the first position holding x.
IndexOf(s, x) == Min({i \in 1..Len(s) : s[i] = x})

Abs(x) == IF x < 0 THEN -x ELSE x

RECURSIVE GCD(_, _)
GCD(a, b) == IF b = 0 THEN a ELSE GCD(b, a % b)

\* A float, kept exact: the fraction n / d (d > 0) in lowest terms, so that
\* two floats are equal exactly when their records are.
Rat(n, d) == LET g == GCD(Abs(n), d) IN [num |-> n \div g, den |-> d \div g]
RatAdd(a, b) == Rat(a.num * b.den + b.num * a.den, a.den * b.den)
RatSub(a, b) == Rat(a.num * b.den - b.num * a.den, a.den * b.den)

\* sum(series) of a series of floats.
RECURSIVE SumRat(_)
SumRat(s) == IF s = <<>> THEN Rat(0, 1) ELSE RatAdd(Head(s), SumRat(Tail(s)))

NoCall == [op |-> "none", empty |-> FALSE, exc |-> "none"]


\* What a call hands back: a value, or the exception it raises.
Ok(v) == [exc |-> "none", val |-> v]
Raise(e) == [exc |-> e, val |-> Rat(0, 1)]

\* Python's true division of a float by an int.
TrueDiv(a, d) == IF d = 0 THEN Raise("ZeroDivisionError") ELSE Ok(Rat(a.num, a.den * d))

\* ------------------------------------------- GraphDriver and its backends
Backends == {"NEO4j", "ArangoDB", "OrientDB"}

\* add_node, add_edge, get_single_node, get_nodes_hops, ssp, clear
CapOps == {"add_node", "add_edge", "get_single_node", "get_nodes_hops", "ssp", "clear"}

\* How the backend answers one query handed to it: it runs it, or its client
\* library raises.
BackendOutcomes == {"ok", "QueryError", "TimeoutError", "ConnectionError"}

\* OrientDB.query: except PyOrientCommandException: pass; except TimeoutError:
\* print("Timeout"). The other two backends catch nothing.
Swallowed(b, o) == b = "OrientDB" /\ o \in {"QueryError", "TimeoutError"}

\* NEO4j.query / ArangoDB.query / OrientDB.query on a store of class b whose
\* flag is supp, the backend answering o if asked: whether the backend was
\* asked, whether a session was opened, what the client library raised
\* inside query (err) and what the call raises (exc).
QueryIgnoringSuppression(b, supp, o) ==
    [ran |-> 1,
     session |-> IF b = "NEO4j" THEN 1 ELSE 0,
     err |-> IF o = "ok" THEN "none" ELSE o,
     exc |-> IF o = "ok" \/ Swallowed(b, o) THEN "none" ELSE o]
Query(b, supp, o) ==
    [ran |-> IF supp THEN 0 ELSE 1,
     session |-> IF b = "NEO4j" THEN 1 ELSE 0,
     err |-> IF supp \/ o = "ok" THEN "none" ELSE o,
     exc |-> IF supp \/ o = "ok" \/ Swallowed(b, o) THEN "none" ELSE o]

\* The self.query(...) calls of one capability: two in ArangoDB.clear and
\* OrientDB.clear, one everywhere else.
QueriesOf(b, op) == IF op = "clear" /\ b \in {"ArangoDB", "OrientDB"} THEN 2 ELSE 1

\* The queries of one capability call in order, the backend answering os[i]
\* to the i-th: a query that raises ends the call.
RECURSIVE RunQueries(_, _, _)
RunQueries(b, supp, os) ==
    IF os = <<>> THEN [ran |-> 0, session |-> 0, err |-> "none", exc |-> "none"]
    ELSE LET q == Query(b, supp, Head(os)) IN
         IF q.exc # "none" THEN q
         ELSE LET rest == RunQueries(b, supp, Tail(os)) IN
              [ran |-> q.ran + rest.ran, session |-> q.session + rest.session,
               err |-> IF q.err # "none" THEN q.err ELSE rest.err,
               exc |-> rest.exc]

\* What the backend may answer to the queries of capability op.
Answers(b, op) == [1..QueriesOf(b, op) -> BackendOutcomes]

\* GraphDriver.__init__
StoreInit(b) ==
    /\ backend = b
    /\ suppressed = FALSE
    /\ executed = 0
    /\ sessions = 0
    /\ store_call = [op |-> "none", err |-> "none", exc |-> "none", suppressed |-> FALSE]

\* GraphDriver.enter_suppression
enter_suppression ==
    /\ suppressed' = TRUE
    /\ UNCHANGED <<backend, executed, sessions, store_call>>

\* GraphDriver.exit_suppression
exit_suppression ==
    /\ suppressed' = FALSE
    /\ UNCHANGED <<backend, executed, sessions, store_call>>

\* One capability call on the store, the backend answering os.
Capability(op, os) ==
    LET r == RunQueries(backend, suppressed, os) IN
    /\ executed' = executed + r.ran
    /\ sessions' = sessions + r.session
    /\ store_call' = [op |-> op, err |-> r.err, exc |-> r.exc, suppressed |-> suppressed]
    /\ UNCHANGED <<backend, suppressed>>

\* ------------------------------------------------- Profiler: sampling loop
\* A fresh Thread(target=self._run): _run's locals before its first statement.
\* A local that is dead (rewritten by the next tick before it is read) is
\* put back to its first value.
\*   k       position of the for loop over self._pids
\*   cpu     the list cpu of the tick
\*   mem     the accumulator mem of the tick
\*   pool    cpu_thread_pool: per child its target index, its process, its state
\*   rd_cpu, rd_rss   history: what cpu_percent / memory_info().rss returned
\*                    for the k-th pid of this tick (0: nothing returned)
NewThread ==
    [pc |-> "while", k |-> 1, cpu |-> <<>>, mem |-> 0, pool |-> <<>>,
     rd_cpu |-> <<>>, rd_rss |-> <<>>]

\* The thread has ended: _run returned or an exception left it.
TerminatedOrAppending(t) == threads[t].pc \in {"done", "crashed", "append_mem"}
Terminated(t) == threads[t].pc \in {"done", "crashed"}

\* while self._running:
WhileRunningAlways == TRUE
WhileRunning == running

\* while self._running: ... cpu = [0 ...]; mem = 0
RunWhile(t) ==
    /\ threads[t].pc = "while"
    /\ WhileRunning => Len(cpu_usage) < MaxSamples
    /\ threads' = [threads EXCEPT ![t] =
          IF WhileRunning
          THEN [pc |-> "for", k |-> 1, cpu |-> [i \in 1..Len(pids) |-> 0], mem |-> 0,
                pool |-> <<>>, rd_cpu |-> <<>>, rd_rss |-> <<>>]
          ELSE [@ EXCEPT !.pc = "done"]]
    /\ UNCHANGED <<alive, pids, running, thread, cpu_usage, memory_usage>>

\* self._pids.index(pid): the slot of cpu the child thread of pid writes.
CpuIndexFirstSlot(pid) == 1
CpuIndex(pid) == IndexOf(pids, pid)

\* One pass of `for pid in self._pids`: psutil.Process(pid) and memory_info()
\* raise NoSuchProcess for a process that is gone, which ends _run.
RunForPid(t) ==
    LET T == threads[t] IN
    /\ T.pc = "for"
    /\ T.k <= Len(pids)
    /\ LET pid == pids[T.k] IN
       IF pid \notin alive
       THEN threads' = [threads EXCEPT ![t] = [NewThread EXCEPT !.pc = "crashed"]]
       ELSE \E r \in RssVals(pid) :
              threads' = [threads EXCEPT ![t] =
                 [@ EXCEPT !.k = @ + 1,
                           !.pool = Append(@, [index |-> CpuIndex(pid), pid |-> pid,
                                               st |-> "new"]),
                           !.mem = @ + r,
                           !.rd_cpu = Append(@, 0),
                           !.rd_rss = Append(@, r)]]
    /\ UNCHANGED <<alive, pids, running, thread, cpu_usage, memory_usage>>

\* for t in cpu_thread_pool: t.start()
RunStartPool(t) ==
    LET T == threads[t] IN
    /\ T.pc = "for"
    /\ T.k > Len(pids)
    /\ threads' = [threads EXCEPT ![t] =
          [@ EXCEPT !.pc = "join",
                    !.pool = [j \in 1..Len(T.pool) |-> [T.pool[j] EXCEPT !.st = "started"]]]]
    /\ UNCHANGED <<alive, pids, running, thread, cpu_usage, memory_usage>>

\* cpu_thread: cpu[index] = proc.cpu_percent(interval); for a process that is
\* gone cpu_percent raises inside the child thread, which ends without writing.
CpuThread(t, j) ==
    LET T == threads[t] IN
    /\ T.pc = "join"
    /\ j \in 1..Len(T.pool)
    /\ T.pool[j].st = "started"
    /\ IF T.pool[j].pid \in alive
       THEN \E c \in CpuVals(T.pool[j].pid) :
              threads' = [threads EXCEPT ![t] =
                 [@ EXCEPT !.cpu[T.pool[j].index] = c,
                           !.rd_cpu[j] = c,
                           !.pool[j].st = "done"]]
       ELSE threads' = [threads EXCEPT ![t].pool[j].st = "done"]
    /\ UNCHANGED <<alive, pids, running, thread, cpu_usage, memory_usage>>

\* for t in cpu_thread_pool: t.join()
PoolJoinedFirst(T) == IF T.pool = <<>> THEN TRUE ELSE T.pool[1].st = "done"
PoolJoined(T) == \A j \in 1..Len(T.pool) : T.pool[j].st = "done"

\* ...t.join(); self._cpu_usage.append(sum(cpu))
RunAppendCpu(t) ==
    LET T == threads[t] IN
    /\ T.pc = "join"
    /\ PoolJoined(T)
    /\ cpu_usage' = Append(cpu_usage, SumSeq(T.cpu))
    /\ threads' = [threads EXCEPT ![t] =
          [@ EXCEPT !.pc = "append_mem", !.cpu = <<>>, !.pool = <<>>, !.rd_cpu = <<>>]]
    /\ UNCHANGED <<alive, pids, running, thread, memory_usage>>

\* mem / 1024 / 1024
MB(mem) == Rat(mem, BytesPerMB)

\* self._memory_usage.append(mem / 1024 / 1024); time.sleep(self._interval)
RunAppendMem(t) ==
    LET T == threads[t] IN
    /\ T.pc = "append_mem"
    /\ memory_usage' = Append(memory_usage, MB(T.mem))
    /\ threads' = [threads EXCEPT ![t] = NewThread]
    /\ UNCHANGED <<alive, pids, running, thread, cpu_usage>>

\* One step of the sampling thread t or of one of its cpu_thread children.
ThreadStep(t) ==
    \/ RunWhile(t)
    \/ RunForPid(t)
    \/ RunStartPool(t)
    \/ \E j \in 1..Cardinality(PIDS) : CpuThread(t, j)
    \/ RunAppendCpu(t)
    \/ RunAppendMem(t)

\* A process of the machine exits (outside the program's control).
ProcExit ==
    /\ \E p \in alive : alive' = alive \ {p}
    /\ UNCHANGED <<pids, running, thread, threads, cpu_usage, memory_usage>>

\* --------------------------------------------------- Profiler: the methods
\* database.get_pids(): the pids of the live processes the backend's filter
\* matches, in process_iter's order.
GetPids == {SortedSeq(S) : S \in SUBSET alive}

\* len(self._cpu_usage), len(self._memory_usage)
SeriesLengths == <<Len(cpu_usage), Len(memory_usage)>>
NoStop == <<0, 0>>

\* Profiler.start
StartEffect ==
    /\ running' = TRUE
    /\ threads' = Append(threads, NewThread)
    /\ thread' = Len(threads) + 1

\* Profiler.__init__: if not self._pids: error(f"No PIDs found for {database}")
NoPidsErrorSilent(ps) == <<>>
NoPidsError(ps) == IF ps = <<>> THEN <<"No PIDs found">> ELSE <<>>

\* Profiler.__init__: the fields of the new instance, threads being the
\* threads of the new instance (those of an instance dropped before have ended).
InitEffect(ps, auto_start) ==
    /\ pids' = ps
    /\ at_stop' = NoStop
    /\ log' = NoPidsError(ps)
    /\ cpu_usage' = <<>>
    /\ memory_usage' = <<>>
    /\ IF auto_start
       THEN running' = TRUE /\ thread' = 1 /\ threads' = <<NewThread>>
       ELSE running' = FALSE /\ thread' = 0 /\ threads' = <<>>

\* self._thread.join() returns once the thread has ended.
JoinedNoWait(t) == TRUE
Joined(t) == Terminated(t)

\* Profiler.get_average_cpu_usage
AverageCpuZeroWhenEmpty ==
    IF Len(cpu_usage) = 0 THEN Ok(Rat(0, 1))
    ELSE TrueDiv(Rat(SumSeq(cpu_usage), 1), Len(cpu_usage))
get_average_cpu_usage == TrueDiv(Rat(SumSeq(cpu_usage), 1), Len(cpu_usage))

\* Profiler.get_average_memory_usage
get_average_memory_usage ==
    TrueDiv(SumRat(memory_usage), Len(memory_usage))

\* Profiler.get_summary: the two averages, formatted; raises what they raise.
get_summary ==
    IF get_average_cpu_usage.exc # "none" THEN get_average_cpu_usage
    ELSE get_average_memory_usage

\* --------------------------------------- a caller using a Profiler directly
Called(op, series, r) == [op |-> op, empty |-> series = <<>>, exc |-> r.exc]

\* p = Profiler(database, interval, auto_start)
Construct ==
    /\ pc = "no_profiler"
    /\ \E ps \in GetPids, auto_start \in BOOLEAN : InitEffect(ps, auto_start)
    /\ pc' = "idle"
    /\ UNCHANGED <<alive, call, stop_returned, svars, clock, pb, wl, it, saves, shown>>

\* p.start()
Start ==
    /\ pc = "idle"
    /\ Len(threads) < MaxStarts
    /\ StartEffect
    /\ UNCHANGED <<alive, pids, cpu_usage, memory_usage, pc, call, stop_returned, at_stop, svars, bvars>>

\* p.stop(), first statement: self._running = False; then self._thread.join()
\* is entered (AttributeError when start() was never called).
StopClear ==
    /\ pc = "idle"
    /\ running' = FALSE
    /\ IF thread = 0
       THEN pc' = "idle" /\ call' = [NoCall EXCEPT !.op = "stop", !.exc = "AttributeError"]
       ELSE pc' = "stop_join" /\ call' = call
    /\ at_stop' = SeriesLengths
    /\ UNCHANGED <<alive, pids, thread, threads, cpu_usage, memory_usage, stop_returned,
                   svars, bvars>>

\* p.stop() returns
StopJoin ==
    /\ pc = "stop_join"
    /\ Joined(thread)
    /\ pc' = "idle"
    /\ stop_returned' = TRUE
    /\ UNCHANGED <<pvars, call, at_stop, svars, bvars>>

\* p.get_average_cpu_usage() / p.get_average_memory_usage()
GetAverage ==
    /\ pc = "idle"
    /\ \A t \in 1..Len(threads) : Terminated(t)
    /\ \/ call' = Called("get_average_cpu_usage", cpu_usage, get_average_cpu_usage)
       \/ call' = Called("get_average_memory_usage", memory_usage, get_average_memory_usage)
    /\ UNCHANGED <<pvars, pc, stop_returned, at_stop, svars, bvars>>

\* ------------------------------------------------------------ the workloads
Benches == {"bench_add_single_node", "bench_add_single_edge", "bench_add_database"}

\* The keyword parameters of a workload besides database.
Params(bench) ==
    IF bench = "bench_add_database" THEN {"path_node", "path_edge"} ELSE {"size"}

\* A keyword argument: the int v, or (list) the list vs.
Arg(name, v) == [name |-> name, list |-> FALSE, v |-> v, vs |-> <<>>]
ListArg(name, vs) == [name |-> name, list |-> TRUE, v |-> 0, vs |-> vs]

Names(kwargs) == {kwargs[i].name : i \in 1..Len(kwargs)}
Get(kwargs, name) == kwargs[CHOOSE i \in 1..Len(kwargs) : kwargs[i].name = name]

Repeat(op, n) == [k \in 1..n |-> op]

\* What bench(database, **kwargs) raises before its first operation: an
\* unexpected keyword, or range() / open() of a list.
CallError(bench, kwargs) ==
    IF ~(Names(kwargs) \subseteq Params(bench)) THEN "TypeError"
    ELSE IF \E i \in 1..Len(kwargs) : kwargs[i].list THEN "TypeError"
    ELSE "none"

\* The operations a workload performs in order when none raises: "open" is
\* load_database opening one of its two files, each holding one line.
SingleEdgeOpsSize(kwargs) == Repeat("add_edge", Get(kwargs, "size").v)
SingleEdgeOps(kwargs) == Repeat("add_edge", Get(kwargs, "size").v - 1)
WorkloadOps(bench, kwargs) ==
    CASE bench = "bench_add_single_node" -> Repeat("add_node", Get(kwargs, "size").v)
      [] bench = "bench_add_single_edge" -> SingleEdgeOps(kwargs)
      [] bench = "bench_add_database" -> <<"open", "add_node", "open", "add_edge">>

NoWl == [ops |-> <<>>, i |-> 0]
WlDone == wl.i = Len(wl.ops)

\* The next operation of the running workload: it returns, or it raises e,
\* which ends the workload and sends the caller to pc_raise.
WorkloadStep(pc_raise) ==
    /\ ~WlDone
    /\ LET op == wl.ops[wl.i + 1] IN
       IF op = "open"
       THEN /\ \E found \in BOOLEAN :
                 IF found
                 THEN wl' = [wl EXCEPT !.i = @ + 1] /\ UNCHANGED <<pb, pc>>
                 ELSE /\ wl' = NoWl
                      /\ pb' = [pb EXCEPT !.exc = "FileNotFoundError"]
                      /\ pc' = pc_raise
            /\ UNCHANGED svars
       ELSE \E os \in Answers(backend, op) :
              /\ Capability(op, os)
              /\ IF store_call'.exc = "none"
                 THEN wl' = [wl EXCEPT !.i = @ + 1] /\ UNCHANGED <<pb, pc>>
                 ELSE /\ wl' = NoWl
                      /\ pb' = [pb EXCEPT !.exc = store_call'.exc]
                      /\ pc' = pc_raise

\* ---------------------------------------------------------------- save_data
\* The file a save_data call leaves: the header as joined by ",", then the
\* lines, each the cells written (every cell is followed by ","), nl telling
\* whether its "\n" was written.
NoFile == [created |-> FALSE, head |-> <<>>, lines |-> <<>>]

\* The rows range(len(args[0])) that every column can fill.
FullRows(args) ==
    {i \in 1..Len(args[1]) : \A c \in 1..Len(args) : i <= Len(args[c])}

\* The cells of row i written before arg[i] raises IndexError.
RowCells(args, i) ==
    LET short == {c \in 1..Len(args) : Len(args[c]) < i}
        upto == IF short = {} THEN Len(args) ELSE Min(short) - 1
    IN  [c \in 1..upto |-> args[c][i]]

\* save_data(name, head, *args), the Results directory being there or not.
SaveData(name, head, args, dir_ok) ==
    IF ~dir_ok
    THEN [name |-> name, args |-> args, file |-> NoFile, exc |-> "FileNotFoundError"]
    ELSE LET n == Len(args[1])
             bad == {i \in 1..n : i \notin FullRows(args)}
             last == IF bad = {} THEN n ELSE Min(bad)
         IN  [name |-> name,
              args |-> args,
              file |-> [created |-> TRUE,
                        head |-> head,
                        lines |-> [i \in 1..last |->
                                     [cells |-> RowCells(args, i),
                                      nl |-> i \in FullRows(args)]]],
              exc |-> IF bad = {} THEN "none" ELSE "IndexError"]

\* A list of ints as the floats of the same values.
IntCol(xs) == [i \in 1..Len(xs) |-> Rat(xs[i], 1)]

\* --------------------------------------------------------- show_single_bench
\* line.strip().split(",") of a line save_data wrote: one token per cell and,
\* every cell being followed by ",", an empty token after the last.
Split(line) ==
    [c \in 1..(Len(line.cells) + 1) |->
        IF c <= Len(line.cells) THEN [empty |-> FALSE, v |-> line.cells[c]]
        ELSE [empty |-> TRUE, v |-> Rat(0, 1)]]

\* for i, v in enumerate(tokens): data[i].append(float(v)), from token i on:
\* data[i] raises IndexError past the header's width, float("") ValueError.
RECURSIVE ReadTokens(_, _, _)
ReadTokens(data, toks, i) ==
    IF i > Len(toks) THEN [data |-> data, exc |-> "none"]
    ELSE IF i > Len(data) THEN [data |-> data, exc |-> "IndexError"]
    ELSE IF toks[i].empty THEN [data |-> data, exc |-> "ValueError"]
    ELSE ReadTokens([data EXCEPT ![i] = Append(@, toks[i].v)], toks, i + 1)

\* for line in f: ..., from line k on
RECURSIVE ReadLines(_, _, _)
ReadLines(data, lines, k) ==
    IF k > Len(lines) THEN [data |-> data, exc |-> "none"]
    ELSE LET r == ReadTokens(data, Split(lines[k]), 1) IN
         IF r.exc # "none" THEN r ELSE ReadLines(r.data, lines, k + 1)

\* h[0] == "_" for the headers the program writes
Underscored(h) == h \in {"_x", "_Time [s]", "_size", "_None"}

\* list.remove(x): the list without its first element equal to x
Remove(xs, x) ==
    LET k == Min({i \in 1..Len(xs) : xs[i] = x}) IN
    [i \in 1..(Len(xs) - 1) |-> IF i < k THEN xs[i] ELSE xs[i + 1]]

NoShown == [of |-> 0, exc |-> "none", x_axis_name |-> "", x_axis |-> <<>>,
            head |-> <<>>, data |-> <<>>]

\* show_single_bench up to data.remove(x_axis), on the k-th file saved
ShowSingle(k, file) ==
    LET r == ReadLines([h \in 1..Len(file.head) |-> <<>>], file.lines, 1)
        us == {i \in 1..Len(file.head) : Underscored(file.head[i])}
    IN  IF r.exc # "none" THEN [NoShown EXCEPT !.of = k, !.exc = r.exc]
        ELSE IF us = {} THEN [NoShown EXCEPT !.of = k, !.exc = "IndexError"]
        ELSE [of |-> k, exc |-> "none",
              x_axis_name |-> file.head[Min(us)],
              x_axis |-> r.data[Min(us)],
              head |-> Remove(file.head, file.head[Min(us)]),
              data |-> Remove(r.data, r.data[Min(us)])]

\* ------------------------------------------------------------ perform_bench
CallFrame(bench, kwargs, save, caller) ==
    [bench |-> bench, kwargs |-> kwargs, save |-> save, caller |-> caller,
     start |-> 0, end |-> 0, overhead |-> 0, duration |-> 0,
     stamps |-> <<>>, calls |-> 0, reported |-> FALSE, exc |-> "none"]
NoPb == CallFrame("none", <<>>, FALSE, "none")

NoIt == [bench |-> "none", kwargs |-> <<>>, arg |-> 0, j |-> 0, v_name |-> "None",
         values |-> <<>>, cpu_usage |-> <<>>, memory_usage |-> <<>>, duration |-> <<>>]

\* time.time(): no earlier than the value it returned last.
Now(t) == t \in clock..MaxClock /\ clock' = t

\* start = time.time()
PbStart ==
    /\ pc = "pb_start"
    /\ \E t \in 0..MaxClock :
         /\ Now(t)
         /\ pb' = [pb EXCEPT !.start = t, !.stamps = Append(@, t)]
    /\ pc' = "pb_enter"
    /\ UNCHANGED <<pvars, call, stop_returned, at_stop, svars, wl, it, saves, shown, log>>

\* with Suppress(database): __enter__, then bench(database, **kwargs) is called
PbEnter ==
    /\ pc = "pb_enter"
    /\ enter_suppression
    /\ IF CallError(pb.bench, pb.kwargs) # "none"
       THEN /\ pb' = [pb EXCEPT !.exc = CallError(pb.bench, pb.kwargs), !.calls = @ + 1]
            /\ pc' = "pb_exit"
            /\ wl' = NoWl
       ELSE /\ wl' = [ops |-> WorkloadOps(pb.bench, pb.kwargs), i |-> 0]
            /\ pc' = "pb_dry"
            /\ pb' = [pb EXCEPT !.calls = @ + 1]
    /\ UNCHANGED <<pvars, call, stop_returned, at_stop, clock, it, saves, shown, log>>

\* the dry run
PbDry ==
    /\ pc = "pb_dry"
    /\ WorkloadStep("pb_exit")
    /\ UNCHANGED <<pvars, call, stop_returned, at_stop, clock, it, saves, shown, log>>

\* Suppress.__exit__, entered with the exception exc of the block ("none"
\* when the block returned): the flag it leaves.
SuppressExitOnSuccessOnly(exc) == exc # "none"
SuppressExit(exc) == FALSE

\* the end of the with block: __exit__ runs, and returns nothing, so what the
\* block raised goes on to the caller of perform_bench
PbExit ==
    /\ \/ pc = "pb_dry" /\ WlDone
       \/ pc = "pb_exit"
    /\ suppressed' = SuppressExit(pb.exc)
    /\ pc' = IF pb.exc = "none" THEN "pb_end" ELSE "raised"
    /\ wl' = NoWl
    /\ UNCHANGED <<pvars, call, stop_returned, at_stop, backend, executed, sessions, store_call,
                   clock, pb, it, saves, shown, log>>

\* end = time.time(); overhead = end - start
PbEnd ==
    /\ pc = "pb_end"
    /\ \E t \in 0..MaxClock :
         /\ Now(t)
         /\ pb' = [pb EXCEPT !.end = t, !.overhead = t - pb.start,
                             !.stamps = Append(@, t)]
    /\ pc' = "pb_profiler"
    /\ UNCHANGED <<pvars, call, stop_returned, at_stop, svars, wl, it, saves, shown, log>>

\* def __init__(self, database, interval, auto_start=True)
AutoStartOff == FALSE
AutoStart == TRUE

\* profiler = Profiler(database, 0.1)
PbProfiler ==
    /\ pc = "pb_profiler"
    /\ \E ps \in GetPids : InitEffect(ps, AutoStart)
    /\ pc' = "pb_start2"
    /\ UNCHANGED <<alive, call, stop_returned, svars, clock, pb, wl, it, saves, shown>>

\* start = time.time(), then bench(database, **kwargs) is called
PbStart2 ==
    /\ pc = "pb_start2"
    /\ \E t \in 0..MaxClock :
         /\ Now(t)
         /\ pb' = [pb EXCEPT !.start = t, !.stamps = Append(@, t),
                             !.calls = @ + 1,
                             !.exc = CallError(pb.bench, pb.kwargs)]
    /\ IF CallError(pb.bench, pb.kwargs) # "none"
       THEN pc' = "raised" /\ wl' = NoWl
       ELSE pc' = "pb_real" /\ wl' = [ops |-> WorkloadOps(pb.bench, pb.kwargs), i |-> 0]
    /\ UNCHANGED <<pvars, call, stop_returned, at_stop, svars, it, saves, shown, log>>

\* the real run; what it raises leaves perform_bench at once
PbReal ==
    /\ pc = "pb_real"
    /\ WorkloadStep("raised")
    /\ UNCHANGED <<pvars, call, stop_returned, at_stop, clock, it, saves, shown, log>>

\* end = time.time()
PbEnd2 ==
    /\ pc = "pb_real"
    /\ WlDone
    /\ \E t \in 0..MaxClock :
         /\ Now(t)
         /\ pb' = [pb EXCEPT !.end = t, !.stamps = Append(@, t)]
    /\ pc' = "pb_stop"
    /\ wl' = NoWl
    /\ UNCHANGED <<pvars, call, stop_returned, at_stop, svars, it, saves, shown, log>>

\* profiler.stop(): self._running = False
PbStop ==
    /\ pc = "pb_stop"
    /\ running' = FALSE
    /\ pc' = "pb_join"
    /\ at_stop' = SeriesLengths
    /\ UNCHANGED <<alive, pids, thread, threads, cpu_usage, memory_usage,
                   call, stop_returned, svars, bvars>>

\* profiler.stop(): self._thread.join() returns
PbJoin ==
    /\ pc = "pb_join"
    /\ Joined(thread)
    /\ pc' = "pb_report"
    /\ stop_returned' = TRUE
    /\ UNCHANGED <<pvars, call, at_stop, svars, bvars>>

\* duration = end - start - overhead
DurationClamped(start, end, overhead) ==
    IF end - start - overhead < 0 THEN 0 ELSE end - start - overhead
Duration(start, end, overhead) == end - start - overhead

\* duration = ...; info(... finished in {duration}); info(profiler.get_summary())
PbReport ==
    /\ pc = "pb_report"
    /\ pb' = [pb EXCEPT !.duration = Duration(pb.start, pb.end, pb.overhead),
                        !.reported = TRUE,
                        !.exc = get_summary.exc]
    /\ pc' = IF get_summary.exc = "none" THEN "pb_return" ELSE "raised"
    /\ UNCHANGED <<pvars, call, stop_returned, at_stop, svars, clock, wl, it, saves, shown, log>>

\* The three columns perform_bench saves: the sample numbers and the series.
BenchColumns ==
    <<IntCol([i \in 1..Len(cpu_usage) |-> i - 1]), IntCol(cpu_usage), memory_usage>>

\* What perform_bench returns with save=False.
BenchResult ==
    [cpu |-> get_average_cpu_usage, mem |-> get_average_memory_usage,
     duration |-> pb.duration]

\* iterate_bench: values.append(value); cpu_usage.append(res[0]); ...
ItAppendNoDuration(f, value, res) ==
    [f EXCEPT !.values = Append(@, value),
              !.cpu_usage = Append(@, res.cpu.val),
              !.memory_usage = Append(@, res.mem.val),
              !.duration = IF res.duration < 0 THEN @ ELSE Append(@, Rat(res.duration, 1)),
              !.j = @ + 1]
ItAppend(f, value, res) ==
    [f EXCEPT !.values = Append(@, value),
              !.cpu_usage = Append(@, res.cpu.val),
              !.memory_usage = Append(@, res.mem.val),
              !.duration = Append(@, Rat(res.duration, 1)),
              !.j = @ + 1]

\* if save: save_data(...) else: return the averages and the duration; the
\* caller iterate_bench files them (res[0] of the None a saving call returns
\* is a TypeError). The local profiler is dropped with the frame, and the
\* history of its stop() with it.
PbReturn ==
    /\ pc = "pb_return"
    /\ IF pb.save
       THEN \E dir_ok \in BOOLEAN :
              LET r == SaveData([bench |-> pb.bench, db |-> backend, iter |-> FALSE],
                                <<"_Time [s]", "CPU [%]", "MEM [MB]">>,
                                BenchColumns, dir_ok)
              IN  /\ saves' = Append(saves, r)
                  /\ pb' = [pb EXCEPT !.exc =
                              IF r.exc # "none" THEN r.exc
                              ELSE IF pb.caller = "iterate" THEN "TypeError" ELSE "none"]
                  /\ pc' = IF r.exc # "none" \/ pb.caller = "iterate"
                           THEN "raised" ELSE "main_done"
                  /\ it' = it
       ELSE LET res == BenchResult IN
            /\ saves' = saves
            /\ IF res.cpu.exc # "none" \/ res.mem.exc # "none"
               THEN /\ pb' = [pb EXCEPT !.exc = "ZeroDivisionError"]
                    /\ pc' = "raised"
                    /\ it' = it
               ELSE /\ pb' = NoPb
                    /\ IF pb.caller = "iterate"
                       THEN /\ it' = ItAppend(it, it.kwargs[it.arg].vs[it.j], res)
                            /\ pc' = "it_loop"
                       ELSE it' = it /\ pc' = "main_done"
    /\ at_stop' = NoStop
    /\ UNCHANGED <<pvars, call, stop_returned, svars, clock, wl, shown, log>>

\* ------------------------------------------------------------ iterate_bench
\* for arg in kwargs: if type(kwargs[arg]) is list: the first such arg
FirstListLast(kwargs) ==
    LET L == {i \in 1..Len(kwargs) : kwargs[i].list} IN
    IF L = {} THEN 0 ELSE CHOOSE i \in L : \A k \in L : k <= i
FirstList(kwargs) ==
    LET L == {i \in 1..Len(kwargs) : kwargs[i].list} IN
    IF L = {} THEN 0 ELSE Min(L)

\* save=False of the perform_bench call of iterate_bench
ItSaveFlagTrue == TRUE
ItSaveFlag == FALSE

\* for value in kwargs[arg]: new_kwargs = ...; perform_bench(..., save=False, ...)
ItNext ==
    /\ pc = "it_loop"
    /\ it.arg # 0
    /\ it.j <= Len(it.kwargs[it.arg].vs)
    /\ pb' = CallFrame(it.bench,
                       [it.kwargs EXCEPT ![it.arg] =
                           Arg(it.kwargs[it.arg].name, it.kwargs[it.arg].vs[it.j])],
                       ItSaveFlag, "iterate")
    /\ clock' = 0
    /\ pc' = "pb_start"
    /\ UNCHANGED <<pvars, call, stop_returned, at_stop, svars, wl, it, saves, shown, log>>

\* save_data(..., ["_" + v_name, ...], values, cpu_usage, memory_usage, duration)
ItSave ==
    /\ pc = "it_loop"
    /\ IF it.arg = 0 THEN TRUE ELSE it.j > Len(it.kwargs[it.arg].vs)
    /\ IF it.arg = 0
       THEN /\ pb' = [NoPb EXCEPT !.exc = "TypeError"]
            /\ pc' = "raised"
            /\ saves' = saves
       ELSE \E dir_ok \in BOOLEAN :
              LET r == SaveData([bench |-> it.bench, db |-> backend, iter |-> TRUE],
                                <<"_" \o it.v_name, "CPU [%]", "MEM [MB]", "TIME [s]">>,
                                <<IntCol(it.values), it.cpu_usage, it.memory_usage,
                                  it.duration>>, dir_ok)
              IN  /\ saves' = Append(saves, r)
                  /\ pb' = [NoPb EXCEPT !.exc = r.exc]
                  /\ pc' = IF r.exc = "none" THEN "main_done" ELSE "raised"
    /\ UNCHANGED <<pvars, call, stop_returned, at_stop, svars, clock, wl, it, shown, log>>

\* ----------------------------------------------------------------- callers
Sizes == {0, 1, 2}
SweepLists == {<<>>, <<2>>, <<2, 1>>}

\* The keyword arguments perform_bench is called with directly.
DirectKwargs(bench) ==
    IF bench = "bench_add_database" THEN {<<>>}
    ELSE {<<Arg("size", v)>> : v \in Sizes}

\* The keyword arguments iterate_bench is called with: one list, no list,
\* a list after a plain argument, two lists.
SweepKwargs ==
    {<<ListArg("size", vs)>> : vs \in SweepLists}
      \cup {<<Arg("size", 1)>>,
            <<Arg("path_node", 1), ListArg("path_edge", <<2, 1>>)>>,
            <<ListArg("path_node", <<2, 1>>), ListArg("path_edge", <<1>>)>>}

\* perform_bench(bench, database, **kwargs)
CallPerformBench ==
    /\ pc = "main"
    /\ \E bench \in Benches : \E kwargs \in DirectKwargs(bench) :
         pb' = CallFrame(bench, kwargs, TRUE, "main")
    /\ clock' = 0
    /\ pc' = "pb_start"
    /\ UNCHANGED <<pvars, call, stop_returned, at_stop, svars, wl, it, saves, shown, log>>

\* iterate_bench(bench, database, **kwargs)
CallIterateBench ==
    /\ pc = "main"
    /\ \E bench \in Benches : \E kwargs \in SweepKwargs :
         it' = [NoIt EXCEPT !.bench = bench, !.kwargs = kwargs,
                            !.arg = FirstList(kwargs), !.j = 1,
                            !.v_name = IF FirstList(kwargs) = 0 THEN "None"
                                       ELSE kwargs[FirstList(kwargs)].name]
    /\ pc' = "it_loop"
    /\ UNCHANGED <<pvars, call, stop_returned, at_stop, svars, clock, pb, wl, saves, shown, log>>

BenchInit ==
    /\ clock = 0
    /\ pb = NoPb
    /\ wl = NoWl
    /\ it = NoIt
    /\ saves = <<>>
    /\ shown = NoShown
    /\ log = <<>>

\* The state before the first call of the caller, who is at `at`, on a
\* machine where the processes of `procs` run.
InitOn(procs, at) ==
    /\ alive = procs
    /\ pids = <<>>
    /\ running = FALSE
    /\ thread = 0
    /\ threads = <<>>
    /\ cpu_usage = <<>>
    /\ memory_usage = <<>>
    /\ pc = at
    /\ call = NoCall
    /\ stop_returned = FALSE
    /\ at_stop = NoStop
    /\ BenchInit

Sampling ==
    /\ \E t \in 1..Len(threads) : ThreadStep(t)
    /\ UNCHANGED <<cvars, svars, bvars>>

Environment ==
    /\ ProcExit
    /\ UNCHANGED <<cvars, svars, bvars>>

\* Spec: the life cycle of one Profiler under any sequence of calls, on a
\* machine running the steady process.
Init == InitOn({1}, "no_profiler") /\ StoreInit("NEO4j")

Next ==
    \/ Construct
    \/ Start
    \/ StopClear
    \/ StopJoin
    \/ GetAverage
    \/ Sampling
    \/ Environment

Spec == Init /\ [][Next]_vars

\* SpecLive: Spec with the scheduler running every thread that can run: the
\* sampling threads and the caller waiting in join().
SpecLive == Spec /\ WF_vars(Sampling) /\ WF_vars(StopJoin)

\* SpecSample: the samples of a Profiler that is started at most once, on a
\* machine running two processes of varying load.
InitSample == InitOn({2, 3}, "no_profiler") /\ StoreInit("NEO4j")

NextSample ==
    \/ Construct
    \/ StopClear
    \/ StopJoin
    \/ GetAverage
    \/ Sampling
    \/ Environment

SpecSample == InitSample /\ [][NextSample]_vars

\* SpecSampleLive: SpecSample with the scheduler running every thread that
\* can run; every cpu_percent call returns or raises.
SpecSampleLive == SpecSample /\ WF_vars(Sampling) /\ WF_vars(StopJoin)

\* SpecStore: any sequence of capability calls and suppression toggles on a
\* store of any of the three classes.
InitStore ==
    /\ InitOn({}, "store")
    /\ \E b \in Backends : StoreInit(b)

EnterSuppression ==
    /\ enter_suppression
    /\ UNCHANGED <<pvars, cvars, bvars>>

ExitSuppression ==
    /\ exit_suppression
    /\ UNCHANGED <<pvars, cvars, bvars>>

CapabilityCall ==
    /\ executed < MaxQueries
    /\ sessions < MaxQueries
    /\ \E op \in CapOps : \E os \in Answers(backend, op) : Capability(op, os)
    /\ UNCHANGED <<pvars, cvars, bvars>>

NextStore ==
    \/ EnterSuppression
    \/ ExitSuppression
    \/ CapabilityCall

SpecStore == InitStore /\ [][NextStore]_vars

\* SpecBench: one call of perform_bench or of iterate_bench on a store of
\* any of the three classes, on a machine running the steady process.
InitBench ==
    /\ InitOn({1}, "main")
    /\ \E b \in Backends : StoreInit(b)

NextBench ==
    \/ CallPerformBench
    \/ CallIterateBench
    \/ PbStart
    \/ PbEnter
    \/ PbDry
    \/ PbExit
    \/ PbEnd
    \/ PbProfiler
    \/ PbStart2
    \/ PbReal
    \/ PbEnd2
    \/ PbStop
    \/ PbJoin
    \/ PbReport
    \/ PbReturn
    \/ ItNext
    \/ ItSave
    \/ Sampling
    \/ Environment

SpecBench == InitBench /\ [][NextBench]_vars

\* SpecWriter: a caller of save_data handing it two columns of any lengths.
CellVals == {Rat(1, 1), Rat(3, 2)}
WriterCols == UNION {[1..n -> CellVals] : n \in 0..MaxRows}

InitWriter ==
    /\ InitOn({}, "writer")
    /\ StoreInit("NEO4j")

WriterCall ==
    /\ pc = "writer"
    /\ Len(saves) < MaxSaves
    /\ \E x \in WriterCols, y \in WriterCols, dir_ok \in BOOLEAN :
         saves' = Append(saves, SaveData([bench |-> "none", db |-> backend, iter |-> FALSE],
                                         <<"_x", "y">>, <<x, y>>, dir_ok))
    /\ UNCHANGED <<pvars, cvars, svars, clock, pb, wl, it, shown, log>>

\* show_single_bench(path, to_show) on a file a save_data call left
ShowSingleBench ==
    /\ pc = "writer"
    /\ \E k \in DOMAIN saves :
         /\ saves[k].file.created
         /\ shown' = ShowSingle(k, saves[k].file)
    /\ UNCHANGED <<pvars, cvars, svars, clock, pb, wl, it, saves, log>>

NextWriter ==
    \/ WriterCall
    \/ ShowSingleBench

SpecWriter == InitWriter /\ [][NextWriter]_vars

\* ============================================================== properties

\* The sampling thread t ends a step that appends to the CPU series / to the
\* memory series.
AppendsCpu(t) ==
    /\ threads[t].pc = "join"
    /\ t \in DOMAIN threads'
    /\ threads'[t].pc = "append_mem"
AppendsMem(t) ==
    /\ threads[t].pc = "append_mem"
    /\ t \in DOMAIN threads'
    /\ threads'[t].pc = "while"

\* C1: for a Profiler started once, after stop() has returned no step appends
\* to the CPU series or to the memory series.
C1_NoAppendAfterStop ==
    [][(stop_returned /\ Len(threads) = 1)
         => (cpu_usage' = cpu_usage /\ memory_usage' = memory_usage)]_vars

\* C1 witness: stop() has returned on a Profiler started once whose loop had
\* appended a sample to both series.
C1_Witness ==
    /\ stop_returned
    /\ Len(threads) = 1
    /\ Len(cpu_usage) >= 1
    /\ Len(memory_usage) >= 1

\* The list iterate_bench sweeps.
SweepList == it.kwargs[it.arg].vs

\* C2: outside the block guarded by Suppress(database) the store is not
\* suppressed: the flag is false once the block has ended, by return or by
\* an exception, and so it is when the exception reaches the caller.
C2_SuppressionReleased ==
    suppressed => pc \in {"pb_dry", "pb_exit"}

\* C2 witness: the dry run has raised (a file of load_database is missing),
\* the failure has reached the caller and the store is not suppressed.
C2_Witness ==
    /\ pc = "raised"
    /\ pb.exc = "FileNotFoundError"
    /\ Len(pb.stamps) = 1
    /\ ~suppressed

\* C3: the dry run and the real run of perform_bench execute the operations
\* of the same workload with the same parameters; the duration it reports is
\* (end - start of the real run) minus the overhead, the overhead being
\* end - start of the dry run, with no clamping; with save=False that very
\* value is what the caller receives.
C3_DurationIsRealMinusOverhead ==
    /\ [](pc \in {"pb_dry", "pb_real"} => wl.ops = WorkloadOps(pb.bench, pb.kwargs))
    /\ [](pb.reported =>
            /\ Len(pb.stamps) = 4
            /\ pb.overhead = pb.stamps[2] - pb.stamps[1]
            /\ pb.duration = (pb.stamps[4] - pb.stamps[3]) - (pb.stamps[2] - pb.stamps[1]))
    /\ [][(pc = "pb_return" /\ pc' = "it_loop")
            => it'.duration = Append(it.duration, Rat(pb.duration, 1))]_vars

\* C3 witness: a run whose overhead exceeded the wall time of the real run
\* has handed its negative duration to iterate_bench.
C3_Witness ==
    /\ Len(it.duration) >= 1
    /\ it.duration[1].num < 0

\* C7: the four columns of a sweep have one length at every sweep point, the
\* values column is the part of the input list done so far, and when
\* save_data is called all four have the length of the input list and the
\* values column is the input list.
C7_SweepColumnsAligned ==
    it.arg # 0 =>
      /\ Len(it.cpu_usage) = Len(it.values)
      /\ Len(it.memory_usage) = Len(it.values)
      /\ Len(it.duration) = Len(it.values)
      /\ it.values = SubSeq(SweepList, 1, it.j - 1)
      /\ \A k \in DOMAIN saves :
           /\ saves[k].args[1] = IntCol(SweepList)
           /\ \A c \in 1..4 : Len(saves[k].args[c]) = Len(SweepList)

\* C7 witness: the sweep over [2, 1] has been saved.
C7_Witness ==
    /\ it.arg # 0
    /\ Len(saves) = 1
    /\ saves[1].exc = "none"
    /\ it.values = <<2, 1>>

\* C8: in a sweep save_data is not called before the last sweep point has
\* completed, it is called once, for the sweep's own file, and a sweep that
\* ends normally has called it.
C8_OneSaveAfterSweep ==
    it.arg # 0 =>
      /\ Len(saves) <= 1
      /\ \A k \in DOMAIN saves : saves[k].name.iter /\ it.j > Len(SweepList)
      /\ pc = "main_done" => Len(saves) = 1

\* C8 witness: a sweep of two points has ended normally.
C8_Witness ==
    /\ it.arg # 0
    /\ pc = "main_done"
    /\ Len(SweepList) = 2
    /\ Len(saves) = 1

\* C10: a save_data call with columns of unequal length raises and leaves no
\* file.
C10_UnequalColumnsWriteNothing ==
    \A k \in DOMAIN saves :
      (\E c \in DOMAIN saves[k].args : Len(saves[k].args[c]) # Len(saves[k].args[1]))
         => (saves[k].exc # "none" /\ ~saves[k].file.created)

\* C11: a table save_data wrote without error from the header ["_x", "y"] and
\* two columns of one length is read back by show_single_bench without error,
\* "_x" being the independent variable, its column and the other column
\* holding the values written, in order.
C11_RoundTrip ==
    \A k \in DOMAIN saves :
      (/\ shown.of = k
       /\ saves[k].exc = "none"
       /\ Len(saves[k].args[1]) = Len(saves[k].args[2]))
        => /\ shown.exc = "none"
           /\ shown.x_axis_name = "_x"
           /\ shown.x_axis = saves[k].args[1]
           /\ shown.head = <<"y">>
           /\ shown.data = <<saves[k].args[2]>>

\* C12: once stop() has returned on a Profiler instance the instance does not
\* run again: its running flag stays false and its series stay as they are.
C12_StoppedIsTerminal ==
    /\ [](stop_returned => ~running)
    /\ [][stop_returned => (cpu_usage' = cpu_usage /\ memory_usage' = memory_usage)]_vars

\* C13: at most one sampling loop of the instance is alive at any time.
C13_OneSamplingLoop ==
    Cardinality({t \in 1..Len(threads) : ~Terminated(t)}) <= 1

\* C14: a Profiler constructed on an empty list of pids has logged the
\* error, none of its sampling threads ends by an exception, every sample
\* appended is CPU 0 and memory 0, and a stop() call that waits for the
\* sampling thread returns.
C14_EmptyProcessSetAllZero ==
    /\ []((pc \in {"idle", "stop_join"} /\ pids = <<>>) =>
            /\ log = <<"No PIDs found">>
            /\ \A t \in 1..Len(threads) : threads[t].pc # "crashed"
            /\ \A i \in 1..Len(cpu_usage) : cpu_usage[i] = 0
            /\ \A i \in 1..Len(memory_usage) : memory_usage[i] = Rat(0, 1))
    /\ (pc = "stop_join" /\ pids = <<>>) ~> (pc = "idle" /\ stop_returned)

\* C14 witness: on an empty list of pids two samples were appended and
\* stop() has returned.
C14_Witness ==
    /\ pids = <<>>
    /\ pc = "idle"
    /\ stop_returned
    /\ Len(cpu_usage) = 2
    /\ Len(memory_usage) = 2
    /\ log # <<>>

\* C15: when the backend's client library has raised a query error in a
\* workload call, the call raises it and perform_bench has ended by it: the
\* run does not go on.
C15_QueryErrorAborts ==
    store_call.err # "none" =>
      /\ store_call.exc = store_call.err
      /\ pc = "raised"
      /\ pb.exc = store_call.err

\* C16: an iterate_bench call without a list-valued parameter does not end
\* by an exception.
C16_NoListParamReturns ==
    (it.bench # "none" /\ it.arg = 0) => pc # "raised"

\* C17: when perform_bench has exited, normally or by a failure, no sampling
\* loop is alive and the profiler is not running.
C17_ProfilerStoppedOnExit ==
    pc \in {"raised", "main_done", "it_loop"} =>
      /\ ~running
      /\ \A t \in 1..Len(threads) : Terminated(t)

\* C18: a real run of bench_add_single_edge or bench_add_single_node with
\* size >= 1 in which no call raises has made exactly size calls.
C18_SizeCalls ==
    (/\ pc = "pb_real"
     /\ WlDone
     /\ pb.bench \in {"bench_add_single_edge", "bench_add_single_node"}
     /\ Get(pb.kwargs, "size").v >= 1)
      => wl.i = Get(pb.kwargs, "size").v

\* C19: both time-stamps of the overhead interval are taken while the store
\* is suppressed.
C19_OverheadInsideSuppression ==
    [][(Len(pb'.stamps) = Len(pb.stamps) + 1 /\ Len(pb'.stamps) <= 2) => suppressed]_vars

\* C20: the Profiler is constructed after the dry run's block has ended and
\* its end stamp was taken, with the store not suppressed; from then until
\* the real run has ended the profiler is running with a sampling thread
\* started and the store is not suppressed; the start stamp of the real run
\* is taken with the profiler running, and the running flag is cleared only
\* once the end stamp of the real run was taken.
C20_RealRunInsideProfiling ==
    /\ [](pc = "pb_profiler" => (~suppressed /\ Len(pb.stamps) = 2 /\ wl = NoWl))
    /\ [](pc \in {"pb_start2", "pb_real", "pb_stop"} =>
            (running /\ thread # 0 /\ ~suppressed))
    /\ [](pc = "pb_real" => Len(pb.stamps) = 3)
    /\ [][(Len(pb.stamps) = 2 /\ Len(pb'.stamps) = 3) => running]_vars
    /\ [][(running /\ ~running') => (pc = "pb_stop" /\ Len(pb.stamps) = 4)]_vars

\* C20 witness: the real run is under way, an operation done, a sample taken.
C20_Witness ==
    /\ pc = "pb_real"
    /\ wl.i >= 1
    /\ running
    /\ ~suppressed
    /\ Len(cpu_usage) >= 1

\* C21: when a tick waits for its measurements one cpu_thread per pid has
\* been started, in the order of the pids; the tick's sample is appended only
\* when every one of them has ended; and a sampling thread that is between
\* ticks, or has ended, has no measurement under way.
C21_TickIsBarrier ==
    /\ [](\A t \in 1..Len(threads) :
            /\ threads[t].pc = "join" =>
                 /\ Len(threads[t].pool) = Len(pids)
                 /\ \A j \in 1..Len(pids) :
                      /\ threads[t].pool[j].pid = pids[j]
                      /\ threads[t].pool[j].st \in {"started", "done"}
            /\ threads[t].pc \in {"append_mem", "while", "done", "crashed"} =>
                 \A j \in 1..Len(threads[t].pool) : threads[t].pool[j].st # "started")
    /\ [][\A t \in 1..Len(threads) :
            AppendsCpu(t) =>
              \A j \in 1..Len(threads[t].pool) : threads[t].pool[j].st = "done"]_vars

\* C21 witness: a tick over two pids has appended its CPU value, the second
\* tick is waiting for its two measurements, one of them still running.
C21_Witness ==
    /\ Len(pids) = 2
    /\ Len(cpu_usage) = 1
    /\ \E t \in 1..Len(threads) :
         /\ threads[t].pc = "join"
         /\ threads[t].pool[1].st = "done"
         /\ threads[t].pool[2].st = "started"

\* C22: once stop() has cleared the flag each series gets at most one more
\* element; a sampling thread that is at the loop's condition with the flag
\* cleared exits at its next step; and a stop() waiting in join() returns.
C22_StopIsPrompt ==
    /\ []((pc = "stop_join" \/ (pc = "idle" /\ ~running /\ thread # 0)) =>
            /\ Len(cpu_usage) <= at_stop[1] + 1
            /\ Len(memory_usage) <= at_stop[2] + 1)
    /\ [][\A t \in 1..Len(threads) :
            (~running /\ threads[t].pc = "while" /\ threads'[t] # threads[t])
              => threads'[t].pc = "done"]_vars
    /\ (pc = "stop_join") ~> (pc = "idle" /\ stop_returned)

\* C22 witness: stop() cleared the flag during the first tick, the tick was
\* finished, its sample appended, and stop() has returned.
C22_Witness ==
    /\ pc = "idle"
    /\ stop_returned
    /\ at_stop = <<0, 0>>
    /\ Len(cpu_usage) = 1
    /\ Len(memory_usage) = 1
    /\ threads[thread].pc = "done"

\* xs is ys with one element appended.
GrowsByOne(xs, ys) == Len(ys) = Len(xs) + 1 /\ SubSeq(ys, 1, Len(xs)) = xs

\* C23: in a perform_bench run each series of the run's Profiler changes
\* only by getting one element at its end; it changes only between the
\* start of the Profiler and the return of its stop(); whenever no sampling
\* thread is between its two appends, and after stop() has returned, the
\* two series have one length; and the file perform_bench writes has one
\* complete row per sample.
C23_SeriesAppendOnlyAligned ==
    /\ [][pc # "pb_profiler" =>
            /\ cpu_usage' = cpu_usage \/ GrowsByOne(cpu_usage, cpu_usage')
            /\ memory_usage' = memory_usage \/ GrowsByOne(memory_usage, memory_usage')]_vars
    /\ [][(pc # "pb_profiler" /\ SeriesLengths' # SeriesLengths) =>
            /\ thread # 0
            /\ \/ pc \in {"pb_start2", "pb_real", "pb_stop", "pb_join"}
               \/ pc = "raised" /\ running]_vars
    /\ []((\A t \in 1..Len(threads) : threads[t].pc # "append_mem")
            => Len(cpu_usage) = Len(memory_usage))
    /\ [](pc \in {"pb_report", "pb_return"} => Len(cpu_usage) = Len(memory_usage))
    /\ [](\A k \in DOMAIN saves :
            ~saves[k].name.iter =>
              /\ saves[k].exc # "IndexError"
              /\ Len(saves[k].args[2]) = Len(saves[k].args[3])
              /\ saves[k].file.created =>
                   /\ Len(saves[k].file.lines) = Len(saves[k].args[2])
                   /\ \A i \in 1..Len(saves[k].file.lines) :
                        /\ Len(saves[k].file.lines[i].cells) = 3
                        /\ saves[k].file.lines[i].nl)

\* C23 witness: perform_bench has written a file of two rows.
C23_Witness ==
    /\ pc = "main_done"
    /\ Len(saves) = 1
    /\ ~saves[1].name.iter
    /\ saves[1].file.created
    /\ Len(saves[1].file.lines) = 2
    /\ Len(cpu_usage) = 2

\* C24: when perform_bench has stopped its profiler after a real run that
\* returned, each series holds at least one sample, and the summary does not
\* raise ZeroDivisionError.
C24_AtLeastOneSample ==
    /\ pc \in {"pb_report", "pb_return"} =>
         (Len(cpu_usage) >= 1 /\ Len(memory_usage) >= 1)
    /\ pc = "raised" => pb.exc # "ZeroDivisionError"

\* C25: the parameter iterate_bench sweeps is the first list-valued keyword
\* argument; in the perform_bench call of a sweep point this parameter has
\* the point's value and every other keyword argument is the one
\* iterate_bench was given; both runs of the point execute the workload on
\* these arguments; a perform_bench call invokes the workload at most twice
\* and a sweep point that is completed has invoked it exactly twice.
C25_SweepsFirstListOnly ==
    /\ [](it.arg # 0 =>
            /\ it.kwargs[it.arg].list
            /\ \A i \in 1..(it.arg - 1) : ~it.kwargs[i].list)
    /\ []((pb.caller = "iterate" /\ it.arg # 0) =>
            /\ Len(pb.kwargs) = Len(it.kwargs)
            /\ \A i \in 1..Len(it.kwargs) :
                 IF i = it.arg
                 THEN /\ ~pb.kwargs[i].list
                      /\ pb.kwargs[i].name = it.kwargs[i].name
                      /\ pb.kwargs[i].v = it.kwargs[i].vs[it.j]
                 ELSE pb.kwargs[i] = it.kwargs[i])
    /\ [](pc \in {"pb_dry", "pb_real"} => wl.ops = WorkloadOps(pb.bench, pb.kwargs))
    /\ [](pb.calls <= 2)
    /\ [][(pc = "pb_return" /\ pc' = "it_loop") => pb.calls = 2]_vars

\* C25 witness: a sweep over the second of two keyword arguments is at its
\* second point, in the real run.
C25_Witness ==
    /\ it.arg = 2
    /\ it.j = 2
    /\ pc = "pb_real"
    /\ pb.calls = 2
    /\ pb.kwargs[2].v = 1

\* C4: while the store is suppressed no step hands a query to the backend,
\* and no capability call made on a suppressed store raises.
C4_SuppressedNoQuery ==
    [][suppressed => /\ executed' = executed
                     /\ (store_call' # store_call => store_call'.exc = "none")]_vars

\* C4 witness: three capability calls were made, the last of them a clear of
\* a suppressed store, and the backend was never asked.
C4_Witness ==
    /\ suppressed
    /\ store_call.op = "clear"
    /\ store_call.suppressed
    /\ sessions = 3
    /\ executed = 0

\* C5: no error ever terminates the sampling loop, also when a pid of the
\* ProcessSet no longer exists at the tick that reads it.
C5_SamplingSurvivesExit ==
    \A t \in DOMAIN threads : threads[t].pc # "crashed"

\* C6 as stated: on a non-empty ProcessSet every appended sample has the sum
\* of the tick's cpu_percent readings as its CPU value and the sum of the
\* tick's rss readings as its memory value.
C6_SampleIsSumOfReadings ==
    [][\A t \in DOMAIN threads :
         /\ (pids # <<>> /\ AppendsCpu(t))
              => cpu_usage' = Append(cpu_usage, SumSeq(threads[t].rd_cpu))
         /\ (pids # <<>> /\ AppendsMem(t))
              => /\ Len(memory_usage') = Len(memory_usage) + 1
                 /\ SubSeq(memory_usage', 1, Len(memory_usage)) = memory_usage
                 /\ memory_usage'[Len(memory_usage')]
                      = Rat(SumSeq(threads[t].rd_rss), 1)]_vars

\* C6 amended: the CPU value is the sum of the tick's cpu_percent readings,
\* and the memory value is the sum of the tick's rss readings divided by
\* 1024 * 1024 (the sum in MB, not in bytes).
C6_SampleIsSumOfReadingsInMB ==
    [][\A t \in DOMAIN threads :
         /\ (pids # <<>> /\ AppendsCpu(t))
              => cpu_usage' = Append(cpu_usage, SumSeq(threads[t].rd_cpu))
         /\ (pids # <<>> /\ AppendsMem(t))
              => /\ Len(memory_usage') = Len(memory_usage) + 1
                 /\ SubSeq(memory_usage', 1, Len(memory_usage)) = memory_usage
                 /\ memory_usage'[Len(memory_usage')]
                      = Rat(SumSeq(threads[t].rd_rss), BytesPerMB)]_vars

\* C6 witness: a sample of two processes, one read at CPU 1 and rss 1 MB, the
\* other at CPU 2 and rss 1/2 MB, is in the series.
C6_Witness ==
    /\ Len(pids) = 2
    /\ Len(cpu_usage) >= 1
    /\ Len(memory_usage) >= 1
    /\ cpu_usage[1] = 3
    /\ memory_usage[1] = Rat(BytesPerMB + BytesPerMB \div 2, BytesPerMB)

\* C9: an average taken of an empty series raises (ZeroDivisionError); no
\* value is returned.
C9_EmptyAverageRaises ==
    (call.op \in {"get_average_cpu_usage", "get_average_memory_usage"} /\ call.empty)
        => call.exc = "ZeroDivisionError"

\* C9 witness: the average CPU of a Profiler that was started and stopped
\* without a sample has been asked for.
C9_Witness ==
    /\ call.op = "get_average_cpu_usage"
    /\ call.empty
    /\ stop_returned

=============================================================================
